---------------------------- MODULE Spec2Model ----------------------------
(***************************************************************************)
(* TwistChat: the per-connection session protocol (UserSession) and the    *)
(* server-wide registry (UserSessionFactory) of src/twistchat/server.py.   *)
(*                                                                         *)
(* Text is modelled as sequences of one-character strings, so that strip,  *)
(* split, join, startswith and the username pattern are computed the way   *)
(* the code computes them.  A server-to-client line is the tuple of the    *)
(* source's format string followed by its arguments.                       *)
(***************************************************************************)
EXTENDS Integers, Sequences, FiniteSets, TLC

(* ------------------------------ bounds -------------------------------- *)

\* Number of connections the server accepts in one run.
MaxSessions == 3

\* Number of events (connections accepted, lines received, connections lost)
\* the server handles in one run.
MaxEvents == 8

(* ------------------------------- text --------------------------------- *)

Letters == {"a","b","c","d","e","f","g","h","i","j","k","l","m","n","o","p",
            "q","r","s","t","u","v","w","x","y","z",
            "A","B","C","D","E","F","G","H","I","J","K","L","M","N","O","P",
            "Q","R","S","T","U","V","W","X","Y","Z"}

Digits == {"0","1","2","3","4","5","6","7","8","9"}

\* The character class of the pattern "^[A-Za-z0-9_]+$".
NameChars == Letters \cup Digits \cup {"_"}

\* re.compile("^[A-Za-z0-9_]+$").fullmatch
is_valid(uname) ==
    /\ Len(uname) > 0
    /\ \A i \in 1..Len(uname) : uname[i] \in NameChars

\* str.startswith
StartsWith(l, prefix) ==
    /\ Len(l) >= Len(prefix)
    /\ SubSeq(l, 1, Len(prefix)) = prefix

\* l.startswith("/")
is_command(l) == StartsWith(l, <<"/">>)

RECURSIVE LStrip(_)
LStrip(l) == IF l # <<>> /\ Head(l) = " " THEN LStrip(Tail(l)) ELSE l

RECURSIVE RStrip(_)
RStrip(l) ==
    IF l # <<>> /\ l[Len(l)] = " " THEN RStrip(SubSeq(l, 1, Len(l) - 1)) ELSE l

\* str.strip
Strip(l) == RStrip(LStrip(l))

\* str.split(): the words of l, separated by runs of whitespace.
RECURSIVE SplitFrom(_, _, _)
SplitFrom(l, cur, acc) ==
    IF l = <<>>
    THEN IF cur = <<>> THEN acc ELSE Append(acc, cur)
    ELSE IF Head(l) = " "
         THEN SplitFrom(Tail(l), <<>>,
                        IF cur = <<>> THEN acc ELSE Append(acc, cur))
         ELSE SplitFrom(Tail(l), Append(cur, Head(l)), acc)

Split(l) == SplitFrom(l, <<>>, <<>>)

\* sep.join(ws)
RECURSIVE Join(_, _)
Join(sep, ws) ==
    IF ws = <<>> THEN <<>>
    ELSE IF Len(ws) = 1 THEN ws[1]
    ELSE ws[1] \o sep \o Join(sep, Tail(ws))

(* --------------------------- configuration ---------------------------- *)

SLASH_KICK == <<"/","k","i","c","k">>
SLASH_BAN == <<"/","b","a","n">>
SLASH_UNBAN == <<"/","u","n","b","a","n">>
SLASH_KICKALL == <<"/","k","i","c","k","a","l","l">>
SLASH_OP == <<"/","o","p">>
SLASH_DEOP == <<"/","d","e","o","p">>
SLASH_QUIT == <<"/","q","u","i","t">>
SLASH_LEAVE == <<"/","l","e","a","v","e">>
SLASH_NICK == <<"/","n","i","c","k">>
SLASH_USER == <<"/","u","s","e","r">>
SLASH_USERNAME == <<"/","u","s","e","r","n","a","m","e">>
SLASH_ME == <<"/","m","e">>
SLASH_CHANGEPASS == <<"/","c","h","a","n","g","e","p","a","s","s">>
SLASH_MESSAGE == <<"/","m","e","s","s","a","g","e">>
SLASH_MSG == <<"/","m","s","g">>

DEFAULT_ADMIN_PASS == <<"o","p","e","n","_","s","e","s","a","m","e">>

OP_CMDS == {SLASH_KICK, SLASH_BAN, SLASH_UNBAN, SLASH_KICKALL, SLASH_OP}

requires_op(cmd) == cmd \in OP_CMDS

ADMIN == <<"a","d","m","i","n">>

(* ------------------------------ states -------------------------------- *)

REGISTERED == "REGISTERED"
REQUESTING_NAME == "REQUESTING_NAME"
REQUESTING_LOGIN_PASSWORD == "REQUESTING_LOGIN_PASSWORD"
REQUESTING_NEW_PASSWORD == "REQUESTING_NEW_PASSWORD"
CHOOSING_KICK_OTHER_SESS == "CHOOSING_KICK_OTHER_SESS"
REQUESTING_CURRENT_PASSWORD == "REQUESTING_CURRENT_PASSWORD"
REQUESTING_NEW_ACC_PASSWORD == "REQUESTING_NEW_ACC_PASSWORD"
REQUESTING_MESSAGE_TEXT == "REQUESTING_MESSAGE_TEXT"

\* Python's None in a text attribute (name, requested_uname, msg_recipient,
\* reason_for_quit).  The code only tests such an attribute for truth, or
\* never reads it before it is set, so None and "" need not be told apart.
None == <<>>

\* No `state` attribute (yet): a session object before connectionMade.
NoState == "NoState"

\* `exception=None`, `kicked_by=None`: no session.
NoSession == 0

SessIds == 1..MaxSessions

ANONYMOUS == <<"A","n","o","n","y","m","o","u","s">>

(* ------------------------------- state -------------------------------- *)

VARIABLES
    connections,   \* factory.connections: the sessions built and not torn down
    online_users,  \* factory.online_users: name -> session
    users,         \* factory.users: name -> [pword, is_op]
    users_file,    \* USERS_FILE: [exists, data], data the pickled mapping
    sess,          \* the fields of every UserSession
    naccepted,     \* connections accepted so far
    nevents,       \* events handled so far
    sent,          \* the sendLine calls of the last event, in order: <<session, line>>
    last           \* the last event: [op, s, line, raised]

vars ==
    <<connections, online_users, users, users_file, sess, naccepted, nevents,
      sent, last>>

\* The mutable state a handler works on; raised: an exception left the handler.
World ==
    [connections |-> connections, online_users |-> online_users,
     users |-> users, users_file |-> users_file, sess |-> sess, sent |-> <<>>,
     raised |-> FALSE]

\* A session object that does not exist (not yet accepted, or torn down and
\* no longer referenced).
Absent ==
    [state |-> NoState, name |-> None, is_op |-> FALSE, muted |-> FALSE,
     requested_uname |-> None, msg_recipient |-> None,
     reason_for_quit |-> None, disconnecting |-> FALSE, kick_flow |-> FALSE]

\* UserSession.__init__.  disconnecting is transport.disconnecting;
\* kick_flow is a history field: the session answered y/Y in
\* CHOOSING_KICK_OTHER_SESS since it last set requested_uname.
NewSession ==
    [state |-> NoState, name |-> ANONYMOUS, is_op |-> FALSE, muted |-> FALSE,
     requested_uname |-> None, msg_recipient |-> None,
     reason_for_quit |-> None, disconnecting |-> FALSE, kick_flow |-> FALSE]

(* ------------------------- dictionary helpers ------------------------- *)

\* {}
EmptyDict == [x \in {} |-> NoSession]

\* d[k] = v
DictSet(d, k, v) == [x \in DOMAIN d \cup {k} |-> IF x = k THEN v ELSE d[x]]

\* del d[k]
DictDel(d, k) == [x \in DOMAIN d \ {k} |-> d[x]]

(* ------------------------ UserSessionFactory -------------------------- *)

\* A dictionary lookup or deletion with a missing key: the handler stops here.
KeyError(w) == [w EXCEPT !.raised = TRUE]

\* UserSession.sendLine: one more line handed to session s's transport.
sendLine(w, s, line) == [w EXCEPT !.sent = Append(@, <<s, line>>)]

\* for conn in self.connections: ... (the set is walked in session order)
RECURSIVE BroadcastFrom(_, _, _, _)
BroadcastFrom(w, conn, message, exception) ==
    IF conn > MaxSessions THEN w
    ELSE BroadcastFrom(
             IF /\ conn \in w.connections
                /\ conn # exception
                /\ w.sess[conn].state = REGISTERED
             THEN sendLine(w, conn, message)
             ELSE w,
             conn + 1, message, exception)

\* Mutant of broadcast_message: the sender is not excepted.
broadcast_message_to_all(w, message, exception) ==
    BroadcastFrom(w, 1, message, NoSession)

broadcast_message(w, message, exception) ==
    BroadcastFrom(w, 1, message, exception)

save_users(w) == [w EXCEPT !.users_file = [exists |-> TRUE, data |-> w.users]]

load_users(file) ==
    IF file.exists
    THEN file.data
    ELSE [n \in {ADMIN} |-> [pword |-> DEFAULT_ADMIN_PASS, is_op |-> TRUE]]

\* Mutant of num_users: counts the connections, registered or not.
num_users_connections(w) == Cardinality(w.connections)

num_users(w) == Cardinality(DOMAIN w.online_users)

\* Mutant of op: the flag is set on the session but not in the record.
op_session_only(w, username, requester) ==
    IF username \notin DOMAIN w.online_users
    THEN sendLine(w, requester, <<"! That user isn't online right now.">>)
    ELSE LET user == w.online_users[username]
             w1 == broadcast_message(w, <<"! {} is now OP.", username>>, user)
             w2 == sendLine(w1, user, <<"! You are now OP.">>)
             w3 == [w2 EXCEPT !.sess[user].is_op = TRUE]
         IN  save_users(w3)

op(w, username, requester) ==
    IF username \notin DOMAIN w.online_users
    THEN sendLine(w, requester, <<"! That user isn't online right now.">>)
    ELSE LET user == w.online_users[username]
             w1 == broadcast_message(w, <<"! {} is now OP.", username>>, user)
             w2 == sendLine(w1, user, <<"! You are now OP.">>)
             w3 == [w2 EXCEPT !.sess[user].is_op = TRUE,
                              !.users[username].is_op = TRUE]
         IN  save_users(w3)

deop(w, username, requester) ==
    IF username \notin DOMAIN w.online_users
    THEN sendLine(w, requester, <<"! The user isn't online right now.">>)
    ELSE LET user == w.online_users[username]
             w1 == broadcast_message(w, <<"! {} is no longer OP.", username>>, user)
             w2 == sendLine(w1, user, <<"! You are no longer OP.">>)
             w3 == [w2 EXCEPT !.users[username].is_op = FALSE,
                              !.sess[user].is_op = FALSE]
         IN  save_users(w3)

\* Mutant of message: the failure notice goes to every registered session.
message_failure_broadcast(w, sender, recip_name, text) ==
    LET w1 == IF recip_name \notin DOMAIN w.online_users
              THEN broadcast_message(w, <<"! That user isn't online right now">>,
                                     NoSession)
              ELSE LET recipient == w.online_users[recip_name]
                       msg == <<"<msg: {}> {}", w.sess[sender].name, text>>
                   IN  sendLine(sendLine(w, recipient, msg),
                                sender, <<"! Message sent">>)
    IN  [w1 EXCEPT !.sess[sender].state = REGISTERED]

message(w, sender, recip_name, text) ==
    LET w1 == IF recip_name \notin DOMAIN w.online_users
              THEN sendLine(w, sender, <<"! That user isn't online right now">>)
              ELSE LET recipient == w.online_users[recip_name]
                       msg == <<"<msg: {}> {}", w.sess[sender].name, text>>
                   IN  sendLine(sendLine(w, recipient, msg),
                                sender, <<"! Message sent">>)
    IN  [w1 EXCEPT !.sess[sender].state = REGISTERED]

\* The message of lines 414-416 is built and then dropped: nothing is sent.
kick(w, conn, kicked_by) ==
    [w EXCEPT !.sess[conn].muted = TRUE,
              !.sess[conn].disconnecting = TRUE]

\* Mutant of kick_by_name: no `is not None` test, so that the failure line of
\* a kick without a requester raises.
kick_by_name_unguarded(w, username, kicked_by) ==
    IF username \notin DOMAIN w.online_users
    THEN IF kicked_by # NoSession
         THEN sendLine(w, kicked_by, <<"! That user isn't online right now.">>)
         ELSE KeyError(w)
    ELSE kick(w, w.online_users[username], kicked_by)

kick_by_name(w, username, kicked_by) ==
    IF username \notin DOMAIN w.online_users
    THEN IF kicked_by # NoSession
         THEN sendLine(w, kicked_by, <<"! That user isn't online right now.">>)
         ELSE w
    ELSE kick(w, w.online_users[username], kicked_by)

\* Mutant of remove_connection: the online_users entry is left behind.
remove_connection_keeps_entry(w, conn) ==
    IF conn \notin w.connections THEN KeyError(w) ELSE
    [w EXCEPT !.connections = @ \ {conn}]

\* self.connections.remove(conn) raises KeyError when conn is not in the set.
remove_connection(w, conn) ==
    IF conn \notin w.connections THEN KeyError(w) ELSE
    LET w1 == [w EXCEPT !.connections = @ \ {conn}]
        name == w.sess[conn].name
    IN  IF name \in DOMAIN w1.online_users
        THEN [w1 EXCEPT !.online_users = DictDel(@, name)]
        ELSE w1

buildProtocol(w, addr) ==
    [w EXCEPT !.sess[addr] = NewSession,
              !.connections = @ \cup {addr}]

(* ---------------------------- UserSession ----------------------------- *)

\* "{}({}:{})".format(self.name, self.addr.host, self.addr.port); the
\* address of a session is its identity.
longname(w, s) == <<"{}({}:{})", w.sess[s].name, s>>

\* "[{}] {}".format(self.name, line.strip())
msg_format(w, s, line) == <<"[{}] {}", w.sess[s].name, Strip(line)>>

broadcast_msg(w, s, line) == broadcast_message(w, msg_format(w, s, line), s)

broadcast_noti(w, s, line) == broadcast_message(w, line, s)

connectionMade(w, s) ==
    LET w1 == sendLine(w, s, <<"What is your name? (Type below and press Return)">>)
    IN  [w1 EXCEPT !.sess[s].state = REQUESTING_NAME]

\* Mutant of connectionLost: the notice is broadcast for a muted session too.
connectionLost_always_notifies(w, s) ==
    LET reason == w.sess[s].reason_for_quit
        msg == IF reason # <<>>
               THEN <<"{} lost connection.", longname(w, s), " (\"{}\")", reason>>
               ELSE <<"{} lost connection.", longname(w, s)>>
    IN  remove_connection(broadcast_noti(w, s, msg), s)

connectionLost(w, s) ==
    LET reason == w.sess[s].reason_for_quit
        msg == IF reason # <<>>
               THEN <<"{} lost connection.", longname(w, s), " (\"{}\")", reason>>
               ELSE <<"{} lost connection.", longname(w, s)>>
        w1 == IF ~w.sess[s].muted THEN broadcast_noti(w, s, msg) ELSE w
    IN  remove_connection(w1, s)

welcome(w, s) ==
    LET w1 == sendLine(w, s, <<"Welcome {}!", w.sess[s].name>>)
        w2 == sendLine(w1, s, <<"{} people online currently.", num_users(w1)>>)
    IN  IF ~w2.sess[s].muted
        THEN broadcast_noti(w2, s, <<"{} joined the chatroom.", longname(w2, s)>>)
        ELSE w2

request_login_password(w, s) ==
    LET w1 == sendLine(w, s, <<"Password:">>)
    IN  [w1 EXCEPT !.sess[s].state = REQUESTING_LOGIN_PASSWORD]

request_new_acc_password(w, s) ==
    LET w1 == sendLine(w, s, <<"Enter password for new account:">>)
    IN  [w1 EXCEPT !.sess[s].state = REQUESTING_NEW_ACC_PASSWORD]

kick_other_sessions(w, s) ==
    kick_by_name(w, w.sess[s].requested_uname, NoSession)

got_username(w, s, uname) ==
    IF ~is_valid(uname)
    THEN sendLine(w, s, <<"Please enter a valid username.(Type below and press Return)">>)
    ELSE LET w1 == [w EXCEPT !.sess[s].requested_uname = uname,
                             !.sess[s].kick_flow = FALSE]
         IN  IF uname \in DOMAIN w1.online_users
             THEN LET w2 == sendLine(w1, s, <<"This account is being accessed somewhere else.">>)
                      w3 == sendLine(w2, s, <<"Kick the other account? [Y/N]">>)
                  IN  [w3 EXCEPT !.sess[s].state = CHOOSING_KICK_OTHER_SESS]
             ELSE IF uname \in DOMAIN w1.users
             THEN request_login_password(w1, s)
             ELSE request_new_acc_password(w1, s)

\* Mutant of got_login_password: online_users is assigned before the name is
\* adopted, under the name the session had.
got_login_password_maps_old_name(w, s, pword) ==
    IF w.sess[s].requested_uname \notin DOMAIN w.users THEN KeyError(w) ELSE
    LET user_data == w.users[w.sess[s].requested_uname]
    IN  IF user_data.pword = pword
        THEN LET w1 == [w EXCEPT !.sess[s].is_op = user_data.is_op]
                 w2 == kick_other_sessions(w1, s)
                 w3 == [w2 EXCEPT !.online_users =
                                      DictSet(@, w2.sess[s].name, s)]
                 w4 == [w3 EXCEPT !.sess[s].name = w3.sess[s].requested_uname,
                                  !.sess[s].state = REGISTERED]
             IN  welcome(w4, s)
        ELSE sendLine(w, s, <<"Password incorrect. Enter password:">>)

\* Mutant of got_login_password: the other sessions are kicked before the
\* password is compared.
got_login_password_kicks_first(w, s, pword) ==
    IF w.sess[s].requested_uname \notin DOMAIN w.users THEN KeyError(w) ELSE
    LET user_data == w.users[w.sess[s].requested_uname]
        w0 == kick_other_sessions(w, s)
    IN  IF user_data.pword = pword
        THEN LET w1 == [w0 EXCEPT !.sess[s].is_op = user_data.is_op]
                 w3 == [w1 EXCEPT !.sess[s].name = w1.sess[s].requested_uname,
                                  !.sess[s].state = REGISTERED]
                 w4 == [w3 EXCEPT !.online_users =
                                      DictSet(@, w3.sess[s].name, s)]
             IN  welcome(w4, s)
        ELSE sendLine(w0, s, <<"Password incorrect. Enter password:">>)

got_login_password(w, s, pword) ==
    IF w.sess[s].requested_uname \notin DOMAIN w.users THEN KeyError(w) ELSE
    LET user_data == w.users[w.sess[s].requested_uname]
    IN  IF user_data.pword = pword
        THEN LET w1 == [w EXCEPT !.sess[s].is_op = user_data.is_op]
                 w2 == kick_other_sessions(w1, s)
                 w3 == [w2 EXCEPT !.sess[s].name = w2.sess[s].requested_uname,
                                  !.sess[s].state = REGISTERED]
                 w4 == [w3 EXCEPT !.online_users =
                                      DictSet(@, w3.sess[s].name, s)]
             IN  welcome(w4, s)
        ELSE sendLine(w, s, <<"Password incorrect. Enter password:">>)

\* Mutant of got_new_password: save_users is not called.
got_new_password_unsaved(w, s, pword) ==
    IF w.sess[s].name \notin DOMAIN w.users THEN KeyError(w) ELSE
    LET w1 == [w EXCEPT !.users[w.sess[s].name].pword = pword,
                        !.sess[s].state = REGISTERED]
    IN  sendLine(w1, s, <<"! Password changed">>)

\* Mutant of got_new_password: the session is not put back in REGISTERED.
got_new_password_stays(w, s, pword) ==
    IF w.sess[s].name \notin DOMAIN w.users THEN KeyError(w) ELSE
    LET w1 == [w EXCEPT !.users[w.sess[s].name].pword = pword]
        w2 == sendLine(w1, s, <<"! Password changed">>)
    IN  save_users(w2)

got_new_password(w, s, pword) ==
    IF w.sess[s].name \notin DOMAIN w.users THEN KeyError(w) ELSE
    LET w1 == [w EXCEPT !.users[w.sess[s].name].pword = pword,
                        !.sess[s].state = REGISTERED]
        w2 == sendLine(w1, s, <<"! Password changed">>)
    IN  save_users(w2)

\* Mutant of got_new_acc_password: the record takes the session's is_op flag.
got_new_acc_password_keeps_op(w, s, pword) ==
    LET w1 == [w EXCEPT !.sess[s].name = w.sess[s].requested_uname]
        name == w1.sess[s].name
        w2 == [w1 EXCEPT !.users =
                   DictSet(@, name, [pword |-> pword, is_op |-> w.sess[s].is_op])]
        w3 == [w2 EXCEPT !.online_users = DictSet(@, name, s),
                         !.sess[s].state = REGISTERED]
        w4 == sendLine(w3, s, <<"Account created successfully.">>)
        w5 == welcome(w4, s)
    IN  save_users(w5)

got_new_acc_password(w, s, pword) ==
    LET w1 == [w EXCEPT !.sess[s].name = w.sess[s].requested_uname]
        name == w1.sess[s].name
        w2 == [w1 EXCEPT !.users = DictSet(@, name, [pword |-> pword, is_op |-> FALSE])]
        w3 == [w2 EXCEPT !.online_users = DictSet(@, name, s),
                         !.sess[s].state = REGISTERED]
        w4 == sendLine(w3, s, <<"Account created successfully.">>)
        w5 == welcome(w4, s)
    IN  save_users(w5)

got_current_password(w, s, pword) ==
    IF w.sess[s].name \notin DOMAIN w.users THEN KeyError(w) ELSE
    IF pword = w.users[w.sess[s].name].pword
    THEN LET w1 == sendLine(w, s, <<"Enter new password:">>)
         IN  [w1 EXCEPT !.sess[s].state = REQUESTING_NEW_PASSWORD]
    ELSE sendLine(sendLine(w, s, <<"Incorrect password">>),
                  s, <<"Enter password:">>)

got_kick_choice(w, s, yesno) ==
    IF yesno \in {<<"y">>, <<"Y">>}
    THEN LET w1 == sendLine(w, s, <<"Enter password:">>)
         IN  [w1 EXCEPT !.sess[s].state = REQUESTING_LOGIN_PASSWORD,
                        !.sess[s].kick_flow = TRUE]
    ELSE IF yesno \in {<<"n">>, <<"N">>}
    THEN LET w1 == sendLine(w, s, <<"Enter name:">>)
         IN  [w1 EXCEPT !.sess[s].state = REQUESTING_NAME]
    ELSE sendLine(w, s, <<"Enter Y or N: kick the other session using this account?">>)

\* Mutant of got_message_text: a text that starts with "/" is not delivered.
got_message_text_skips_commands(w, s, text) ==
    IF is_command(text)
    THEN [w EXCEPT !.sess[s].state = REGISTERED]
    ELSE message(w, s, w.sess[s].msg_recipient, text)

got_message_text(w, s, text) ==
    message(w, s, w.sess[s].msg_recipient, text)

RECURSIVE kick_each(_, _, _)
kick_each(w, params, s) ==
    IF params = <<>> THEN w
    ELSE kick_each(kick_by_name(w, Head(params), s), Tail(params), s)

RECURSIVE op_each(_, _, _)
op_each(w, params, s) ==
    IF params = <<>> THEN w
    ELSE op_each(op(w, Head(params), s), Tail(params), s)

RECURSIVE deop_each(_, _, _)
deop_each(w, params, s) ==
    IF params = <<>> THEN w
    ELSE deop_each(deop(w, Head(params), s), Tail(params), s)

handle_command(w, s, text) ==
    LET parts == Split(text)
        cmd == Head(parts)
        params == Tail(parts)
        me == w.sess[s]
    IN  IF requires_op(cmd) /\ ~me.is_op
        THEN sendLine(w, s, <<"You are not OP.">>)
        ELSE IF cmd \in {SLASH_QUIT, SLASH_LEAVE}
        THEN [w EXCEPT !.sess[s].reason_for_quit = Join(<<" ">>, params),
                       !.sess[s].disconnecting = TRUE]
        ELSE IF cmd \in {SLASH_NICK, SLASH_USER, SLASH_USERNAME}
        THEN IF params # <<>>
             THEN IF me.name \notin DOMAIN w.online_users
                  THEN KeyError(w)
                  ELSE got_username([w EXCEPT !.online_users = DictDel(@, me.name)],
                                    s, Join(<<"_">>, params))
             ELSE sendLine(w, s, <<"Usage: {} <new nick>", cmd>>)
        ELSE IF cmd = SLASH_ME
        THEN IF params = <<>>
             THEN sendLine(w, s, <<"! usage: /me <action>">>)
             ELSE IF ~me.muted
             THEN broadcast_message(w, <<"* {} {}", me.name, Join(<<" ">>, params)>>,
                                    NoSession)
             ELSE w
        ELSE IF cmd = SLASH_KICK
        THEN kick_each(IF params = <<>>
                       THEN sendLine(w, s, <<"! usage: /kick <username> ...">>)
                       ELSE w, params, s)
        ELSE IF cmd = SLASH_OP
        THEN op_each(IF params = <<>>
                     THEN sendLine(w, s, <<"! usage: /op <username> ...">>)
                     ELSE w, params, s)
        ELSE IF cmd = SLASH_DEOP
        THEN deop_each(IF params = <<>>
                       THEN sendLine(w, s, <<"! usage: /deop <username> ...">>)
                       ELSE w, params, s)
        ELSE IF cmd = SLASH_CHANGEPASS
        THEN LET w1 == sendLine(w, s, <<"Current password: ">>)
             IN  [w1 EXCEPT !.sess[s].state = REQUESTING_CURRENT_PASSWORD]
        ELSE IF cmd \in {SLASH_MESSAGE, SLASH_MSG}
        THEN IF params = <<>>
             THEN sendLine(w, s, <<"! usage: /message <user> [text ...]">>)
             ELSE IF Len(params) = 1
             THEN LET w1 == [w EXCEPT !.sess[s].msg_recipient = params[1]]
                      w2 == sendLine(w1, s, <<"Message text:">>)
                  IN  [w2 EXCEPT !.sess[s].state = REQUESTING_MESSAGE_TEXT]
             ELSE message(w, s, Head(params), Join(<<" ">>, Tail(params)))
        ELSE w

command_or_msg(w, s, line) ==
    IF is_command(line)
    THEN handle_command(w, s, line)
    ELSE IF ~w.sess[s].muted
    THEN broadcast_msg(w, s, line)
    ELSE w

\* The line is decoded (the undecodable line is the action LineUndecodable).
lineReceived(w, s, raw) ==
    LET line == Strip(raw)
        state == w.sess[s].state
    IN  CASE state = REGISTERED -> command_or_msg(w, s, line)
          [] state = REQUESTING_NAME -> got_username(w, s, line)
          [] state = REQUESTING_CURRENT_PASSWORD -> got_current_password(w, s, line)
          [] state = REQUESTING_LOGIN_PASSWORD -> got_login_password(w, s, line)
          [] state = REQUESTING_NEW_PASSWORD -> got_new_password(w, s, line)
          [] state = REQUESTING_NEW_ACC_PASSWORD -> got_new_acc_password(w, s, line)
          [] state = CHOOSING_KICK_OTHER_SESS -> got_kick_choice(w, s, line)
          [] state = REQUESTING_MESSAGE_TEXT -> got_message_text(w, s, line)

(* ------------------------------ inputs -------------------------------- *)

BOB == <<"b","o","b">>
PW == <<"p","w">>
HI == <<"h","i">>
BYE == <<"b","y","e">>
BAD_NAME == <<"b","!">>
SLASH_FOO == <<"/","f","o","o">>

\* The line made of the words ws.
Line(ws) == Join(<<" ">>, ws)

\* Lines a client sends when asked for a name.
NameLines == {ADMIN, BOB, BAD_NAME}

\* Lines a client sends when asked for a password.
PasswordLines == {DEFAULT_ADMIN_PASS, PW}

\* Lines a client sends when asked whether to kick the other session.
KickChoiceLines == {<<"y">>, <<"Y"," ">>, <<"n">>, <<"N">>, <<"x">>}

\* Lines a client sends as the text of a private message.
MessageTextLines == {HI, SLASH_QUIT}

\* Lines a registered client sends.
RegisteredLines ==
    {HI, SLASH_QUIT, Line(<<SLASH_LEAVE, BYE>>),
     Line(<<SLASH_NICK, BOB>>), Line(<<SLASH_NICK, ADMIN>>),
     Line(<<SLASH_NICK, BAD_NAME>>), SLASH_NICK,
     Line(<<SLASH_ME, HI>>), SLASH_ME,
     Line(<<SLASH_KICK, BOB>>), Line(<<SLASH_KICK, ADMIN>>), SLASH_KICK,
     Line(<<SLASH_OP, BOB>>), SLASH_OP,
     Line(<<SLASH_DEOP, ADMIN>>), SLASH_DEOP,
     SLASH_CHANGEPASS,
     Line(<<SLASH_MSG, BOB>>), Line(<<SLASH_MSG, BOB, HI>>), SLASH_MSG,
     SLASH_FOO}

(* ------------------------------ actions ------------------------------- *)

\* UserSessionFactory.__init__ with no USERS_FILE on disk; no connection yet.
Init ==
    /\ connections = {}
    /\ online_users = EmptyDict
    /\ users_file = [exists |-> FALSE, data |-> EmptyDict]
    /\ users = load_users([exists |-> FALSE, data |-> EmptyDict])
    /\ sess = [i \in SessIds |-> Absent]
    /\ naccepted = 0
    /\ nevents = 0
    /\ sent = <<>>
    /\ last = [op |-> "init", s |-> NoSession, line |-> <<>>, raised |-> FALSE]

\* The state after the event `op` of session s ended in w0.  An exception that
\* leaves the handler makes the reactor drop that connection at once, which runs
\* connectionLost.  A session object that was torn down is no longer referenced.
Install(w0, op_name, s, line) ==
    /\ nevents < MaxEvents
    /\ LET w == IF w0.raised THEN connectionLost(w0, s) ELSE w0
       IN
        /\ connections' = w.connections
        /\ online_users' = w.online_users
        /\ users' = w.users
        /\ users_file' = w.users_file
        /\ sess' = [i \in SessIds |->
                        IF i \in w.connections THEN w.sess[i] ELSE Absent]
        /\ sent' = w.sent
        /\ last' = [op |-> op_name, s |-> s, line |-> line, raised |-> w0.raised]
        /\ nevents' = nevents + 1

\* A connection is accepted: buildProtocol, then connectionMade.
Accept ==
    /\ naccepted < MaxSessions
    /\ LET s == naccepted + 1
       IN  Install(connectionMade(buildProtocol(World, s), s), "connectionMade", s, <<>>)
    /\ naccepted' = naccepted + 1

\* A line arrives on a connection that has not been told to close (a transport
\* that is disconnecting reads no more).
Receive(s, raw, op_name) ==
    /\ s \in connections
    /\ ~sess[s].disconnecting
    /\ Install(lineReceived(World, s, raw), op_name, s, raw)
    /\ UNCHANGED naccepted

\* line.decode("utf-8") raises UnicodeDecodeError: the line is dropped.
LineUndecodable ==
    \E s \in connections :
        /\ ~sess[s].disconnecting
        /\ Install(World, "undecodable", s, <<>>)
        /\ UNCHANGED naccepted

GotUsername ==
    \E s \in SessIds, raw \in NameLines :
        /\ sess[s].state = REQUESTING_NAME
        /\ Receive(s, raw, "got_username")

GotKickChoice ==
    \E s \in SessIds, raw \in KickChoiceLines :
        /\ sess[s].state = CHOOSING_KICK_OTHER_SESS
        /\ Receive(s, raw, "got_kick_choice")

GotLoginPassword ==
    \E s \in SessIds, raw \in PasswordLines :
        /\ sess[s].state = REQUESTING_LOGIN_PASSWORD
        /\ Receive(s, raw, "got_login_password")

GotNewAccPassword ==
    \E s \in SessIds, raw \in PasswordLines :
        /\ sess[s].state = REQUESTING_NEW_ACC_PASSWORD
        /\ Receive(s, raw, "got_new_acc_password")

GotCurrentPassword ==
    \E s \in SessIds, raw \in PasswordLines :
        /\ sess[s].state = REQUESTING_CURRENT_PASSWORD
        /\ Receive(s, raw, "got_current_password")

GotNewPassword ==
    \E s \in SessIds, raw \in PasswordLines :
        /\ sess[s].state = REQUESTING_NEW_PASSWORD
        /\ Receive(s, raw, "got_new_password")

GotMessageText ==
    \E s \in SessIds, raw \in MessageTextLines :
        /\ sess[s].state = REQUESTING_MESSAGE_TEXT
        /\ Receive(s, raw, "got_message_text")

CommandOrMsg ==
    \E s \in SessIds, raw \in RegisteredLines :
        /\ sess[s].state = REGISTERED
        /\ Receive(s, raw, "command_or_msg")

\* The transport reports the connection closed: after loseConnection, or
\* because the client went away.
ConnectionLost ==
    \E s \in connections :
        /\ Install(connectionLost(World, s), "connectionLost", s, <<>>)
        /\ UNCHANGED naccepted

Next ==
    \/ Accept
    \/ LineUndecodable
    \/ GotUsername
    \/ GotKickChoice
    \/ GotLoginPassword
    \/ GotNewAccPassword
    \/ GotCurrentPassword
    \/ GotNewPassword
    \/ GotMessageText
    \/ CommandOrMsg
    \/ ConnectionLost

Spec == Init /\ [][Next]_vars

(* ---------------------------- properties ------------------------------ *)

\* C1 (as claimed): in every reachable state, for every username there is at
\* most one live session that is REGISTERED under it.
C1_AtMostOneRegisteredPerName ==
    \A s \in connections, t \in connections :
        (/\ sess[s].state = REGISTERED
         /\ sess[t].state = REGISTERED
         /\ sess[s].name = sess[t].name) => s = t

\* C2 (as claimed): when the teardown of an incumbent t that was kicked by a
\* takeover runs, the session s that took the name over (it went through the
\* duplicate-session flow and is REGISTERED and mapped under the name) is still
\* REGISTERED under that name and mapped under it in online_users afterwards.
C2_TakeoverSurvivesTeardown ==
    [][\A t \in connections, s \in connections :
          (/\ s # t
           /\ sess[t].muted
           /\ sess[t].name = sess[s].name
           /\ sess[s].state = REGISTERED
           /\ sess[s].kick_flow
           /\ sess[s].name \in DOMAIN online_users
           /\ online_users[sess[s].name] = s
           /\ t \notin connections')
          => (/\ s \in connections'
              /\ sess'[s].state = REGISTERED
              /\ sess'[s].name = sess[s].name
              /\ sess[s].name \in DOMAIN online_users'
              /\ online_users'[sess[s].name] = s)]_vars

\* C3 (as claimed): whenever a session s is inserted into online_users under a
\* name that a different live session held immediately before, s answered y/Y
\* in CHOOSING_KICK_OTHER_SESS for that name since it last entered it.
C3_ReplacedOnlyViaKickFlow ==
    [][\A n \in DOMAIN online_users, s \in SessIds :
          (/\ n \in DOMAIN online_users'
           /\ online_users'[n] = s
           /\ online_users[n] # s
           /\ online_users[n] \in connections)
          => (sess[s].kick_flow /\ sess[s].requested_uname = n)]_vars

\* C4 (as claimed): in every reachable state, every live REGISTERED session is
\* the session mapped under its own name in online_users.
C4_RegisteredImpliesOnline ==
    \A s \in connections :
        sess[s].state = REGISTERED
        => (/\ sess[s].name \in DOMAIN online_users
            /\ online_users[sess[s].name] = s)

(* Helpers of the properties. *)

\* How many sendLine calls of seq hand line m to session c.
Count(seq, c, m) == Cardinality({i \in 1..Len(seq) : seq[i] = <<c, m>>})

\* The lines of seq handed to session c, in order.
LinesTo(seq, c) ==
    LET ToC(e) == e[1] = c
        only == SelectSeq(seq, ToC)
    IN  [i \in 1..Len(only) |-> only[i][2]]

\* The sessions a broadcast that excepts exc reaches.
Recipients(exc) ==
    {c \in connections : c # exc /\ sess[c].state = REGISTERED}

\* w differs from the current state at most in the lines sent.
SameState(w) ==
    /\ w.connections = connections
    /\ w.online_users = online_users
    /\ w.users = users
    /\ w.users_file = users_file
    /\ w.sess = sess
    /\ ~w.raised

\* The first word of a line.
Command(raw) == Head(Split(Strip(raw)))

NOT_OP == <<"You are not OP.">>
KICK_NOT_ONLINE == <<"! That user isn't online right now.">>
MSG_NOT_ONLINE == <<"! That user isn't online right now">>
PROBE == <<"probe">>

\* C5: a broadcast is handed exactly once to every live REGISTERED session
\* other than the excepted one and to no other session, and changes nothing
\* else; a chat line of an unmuted REGISTERED session is handed once to every
\* other live REGISTERED session, never to the sender, and nothing else is sent.
C5_BroadcastExactlyOnce ==
    /\ \A exc \in SessIds \cup {NoSession} :
          LET w == broadcast_message(World, PROBE, exc)
          IN  /\ \A c \in SessIds :
                    Count(w.sent, c, PROBE) = IF c \in Recipients(exc) THEN 1 ELSE 0
              /\ Len(w.sent) = Cardinality(Recipients(exc))
              /\ SameState(w)
    /\ (/\ last.op = "command_or_msg"
        /\ ~is_command(Strip(last.line))
        /\ ~sess[last.s].muted)
       => LET chat == <<"[{}] {}", sess[last.s].name, Strip(last.line)>>
          IN  /\ \A c \in SessIds :
                    Count(sent, c, chat) = IF c \in Recipients(last.s) THEN 1 ELSE 0
              /\ Len(sent) = Cardinality(Recipients(last.s))

\* C5 witness: a chat line was handed to another session while a third,
\* unregistered, session was connected.
C5_Witness ==
    /\ last.op = "command_or_msg"
    /\ last.line = HI
    /\ Len(sent) = 1
    /\ sent[1][1] # last.s
    /\ \E c \in connections : sess[c].state # REGISTERED

\* C6 (as claimed): a REGISTERED session that is not an operator and sends
\* /kick, /op or /deop, with or without parameters, is handed exactly
\* "You are not OP." and nothing changes.
C6_NotOpRejected ==
    [][(/\ last'.op = "command_or_msg"
        /\ is_command(Strip(last'.line))
        /\ Command(last'.line) \in {SLASH_KICK, SLASH_OP, SLASH_DEOP}
        /\ ~sess[last'.s].is_op)
       => (/\ sent' = <<<<last'.s, NOT_OP>>>>
           /\ UNCHANGED <<connections, online_users, users, users_file, sess>>)]_vars

\* C7: kick_by_name of a name that is not online changes no state and sends
\* one failure line, to the requester, or no line when there is no requester;
\* so does the /kick of such a name by an operator.
C7_KickOfflineChangesNothing ==
    \A n \in {ADMIN, BOB, BAD_NAME} :
        n \notin DOMAIN online_users =>
            /\ LET w == kick_by_name(World, n, NoSession)
               IN  SameState(w) /\ w.sent = <<>>
            /\ \A by \in connections :
                  /\ LET w == kick_by_name(World, n, by)
                     IN  SameState(w) /\ w.sent = <<<<by, KICK_NOT_ONLINE>>>>
                  /\ (/\ sess[by].state = REGISTERED
                      /\ sess[by].is_op)
                     => LET w == lineReceived(World, by, Line(<<SLASH_KICK, n>>))
                        IN  SameState(w) /\ w.sent = <<<<by, KICK_NOT_ONLINE>>>>

\* C7 witness: an operator has sent /kick bob while bob was not online.
C7_Witness ==
    /\ last.op = "command_or_msg"
    /\ last.line = Line(<<SLASH_KICK, BOB>>)
    /\ BOB \notin DOMAIN online_users
    /\ sent = <<<<last.s, KICK_NOT_ONLINE>>>>

\* C8: a private message to a name that is not online sends one failure notice,
\* to the sender; one to a name that is online sends the formatted line to the
\* session mapped under that name and then an acknowledgment to the sender.
\* Either way only the sender's state field changes (to REGISTERED), and the
\* /msg command and the message-text line do exactly this.
C8_PrivateMessage ==
    \A sender \in connections, n \in {ADMIN, BOB} :
        LET w == message(World, sender, n, HI)
        IN  /\ w.connections = connections
            /\ w.online_users = online_users
            /\ w.users = users
            /\ w.users_file = users_file
            /\ ~w.raised
            /\ w.sess = [sess EXCEPT ![sender].state = REGISTERED]
            /\ w.sent = IF n \notin DOMAIN online_users
                        THEN <<<<sender, MSG_NOT_ONLINE>>>>
                        ELSE << <<online_users[n],
                                  <<"<msg: {}> {}", sess[sender].name, HI>>>>,
                                <<sender, <<"! Message sent">>>> >>
            /\ sess[sender].state = REGISTERED
               => lineReceived(World, sender, Line(<<SLASH_MSG, n, HI>>)) = w
            /\ (sess[sender].state = REQUESTING_MESSAGE_TEXT
                /\ sess[sender].msg_recipient = n)
               => lineReceived(World, sender, HI) = w

\* C8 witness: /msg bob hi was sent while bob was not online and another
\* session was connected; only the sender was handed a line.
C8_Witness ==
    /\ last.op = "command_or_msg"
    /\ last.line = Line(<<SLASH_MSG, BOB, HI>>)
    /\ BOB \notin DOMAIN online_users
    /\ Cardinality(connections) > 1
    /\ sent = <<<<last.s, MSG_NOT_ONLINE>>>>

\* C9: a line in REQUESTING_NEW_ACC_PASSWORD (a state entered only with a valid
\* name that had no record) leaves users with one record for that name, holding
\* the line as secret and is_op = FALSE, changes no other record, maps the
\* session under the name in online_users and makes it REGISTERED.
C9_RegistrationCreatesRecord ==
    [][last'.op = "got_new_acc_password"
       => LET s == last'.s
              n == sess[s].requested_uname
          IN  /\ is_valid(n)
              /\ users' = DictSet(users, n,
                                  [pword |-> Strip(last'.line), is_op |-> FALSE])
              /\ n \in DOMAIN online_users'
              /\ online_users'[n] = s
              /\ sess'[s].state = REGISTERED
              /\ sess'[s].name = n]_vars

\* C9 witness: a session has just registered the new account bob.
C9_Witness ==
    /\ last.op = "got_new_acc_password"
    /\ sess[last.s].state = REGISTERED
    /\ sess[last.s].name = BOB
    /\ users[BOB] = [pword |-> last.line, is_op |-> FALSE]

\* C10: a connection in REQUESTING_NAME that sends a new valid name is handed
\* the new-account password prompt; the line it sends next hands it, in this
\* order and nothing else, "Account created successfully.", "Welcome <name>!"
\* and "<n> people online currently.", n being the number of online_users
\* entries, its own included.
C10_RegistrationLines ==
    /\ (/\ last.op = "got_username"
        /\ sess[last.s].state = REQUESTING_NEW_ACC_PASSWORD)
       => sent = <<<<last.s, <<"Enter password for new account:">>>>>>
    /\ last.op = "got_new_acc_password"
       => /\ sess[last.s].name \in DOMAIN online_users
          /\ online_users[sess[last.s].name] = last.s
          /\ LinesTo(sent, last.s) =
                << <<"Account created successfully.">>,
                   <<"Welcome {}!", sess[last.s].name>>,
                   <<"{} people online currently.",
                     Cardinality(DOMAIN online_users)>> >>

\* C10 witness: the only registered user has just created its account, with
\* another connection open.
C10_Witness ==
    /\ last.op = "got_new_acc_password"
    /\ Cardinality(connections) > 1
    /\ sent = << <<last.s, <<"Account created successfully.">>>>,
                 <<last.s, <<"Welcome {}!", BOB>>>>,
                 <<last.s, <<"{} people online currently.", 1>>>> >>

\* C11 (as claimed): when a connection closes, the "lost connection" notice
\* is sent, once to every other REGISTERED session, if and only if the closing
\* session is REGISTERED and not muted, and otherwise no line is sent; the
\* session leaves connections and online_users.
C11_LostNoticeOnlyIfRegistered ==
    [][last'.op = "connectionLost"
       => LET s == last'.s
              told == IF sess[s].state = REGISTERED /\ ~sess[s].muted
                      THEN Recipients(s)
                      ELSE {}
          IN  /\ \A i \in 1..Len(sent') : sent'[i][1] \in told
              /\ Len(sent') = Cardinality(told)
              /\ s \notin connections'
              /\ \A n \in DOMAIN online_users' : online_users'[n] # s]_vars

\* C12 (as claimed): the /kick of an online name by an operator mutes the
\* session mapped under the name, asks for its connection to be closed, and
\* hands "! <name> was kicked by <kicker>" to every other REGISTERED session.
C12_KickBroadcastsNotice ==
    [][\A n \in {ADMIN, BOB} :
          (/\ last'.op = "command_or_msg"
           /\ last'.line = Line(<<SLASH_KICK, n>>)
           /\ sess[last'.s].is_op
           /\ n \in DOMAIN online_users)
          => LET t == online_users[n]
                 notice == <<"! {} was kicked", sess[t].name,
                             " by {}", sess[last'.s].name>>
             IN  /\ sess'[t].muted
                 /\ sess'[t].disconnecting
                 /\ \A c \in Recipients(t) : Count(sent', c, notice) = 1]_vars

\* C13: /op <name> or /deop <name> sent by an operator.  If the name is
\* online, is_op of the session mapped under it and users[name].is_op both get
\* the new value and nothing else changes in the sessions and records, that
\* session is handed the personal notice and every other REGISTERED session the
\* change notice, once each, and no other line is sent.  If the name is not
\* online, the requester is handed the failure line, no other line is sent and
\* no state changes.
C13_OpDeop ==
    [][\A n \in {ADMIN, BOB}, v \in BOOLEAN :
          (/\ last'.op = "command_or_msg"
           /\ last'.line = Line(<<IF v THEN SLASH_OP ELSE SLASH_DEOP, n>>)
           /\ sess[last'.s].is_op)
          => IF n \in DOMAIN online_users
             THEN LET t == online_users[n]
                      personal == IF v THEN <<"! You are now OP.">>
                                  ELSE <<"! You are no longer OP.">>
                      change == IF v THEN <<"! {} is now OP.", n>>
                                ELSE <<"! {} is no longer OP.", n>>
                  IN  /\ sess' = [sess EXCEPT ![t].is_op = v]
                      /\ users' = [users EXCEPT ![n].is_op = v]
                      /\ Count(sent', t, personal) = 1
                      /\ \A c \in SessIds :
                            Count(sent', c, change) =
                                IF c \in Recipients(t) THEN 1 ELSE 0
                      /\ Len(sent') = 1 + Cardinality(Recipients(t))
             ELSE /\ sent' = <<<<last'.s,
                                 IF v THEN <<"! That user isn't online right now.">>
                                 ELSE <<"! The user isn't online right now.">>>>>>
                  /\ UNCHANGED <<connections, online_users, users, users_file,
                                 sess>>]_vars

\* C13 witness: an operator has sent /op bob while bob was online; the session
\* of bob and the record of bob are operator, and two lines were sent.
C13_Witness ==
    /\ last.op = "command_or_msg"
    /\ last.line = Line(<<SLASH_OP, BOB>>)
    /\ BOB \in DOMAIN online_users
    /\ sess[online_users[BOB]].is_op
    /\ users[BOB].is_op
    /\ Len(sent) = 2
    /\ sent[2] = <<online_users[BOB], <<"! You are now OP.">>>>

\* C14 (as claimed): after a REGISTERED session sends /nick, /user or
\* /username with a candidate name, its old online_users entry is gone and it
\* is in REQUESTING_NAME when the candidate is not a valid name, in
\* CHOOSING_KICK_OTHER_SESS when the candidate is online, in
\* REQUESTING_LOGIN_PASSWORD when the candidate has a record, and in
\* REQUESTING_NEW_ACC_PASSWORD otherwise.
C14_NickEntersNameFlow ==
    [][(/\ last'.op = "command_or_msg"
        /\ is_command(Strip(last'.line))
        /\ Command(last'.line) \in {SLASH_NICK, SLASH_USER, SLASH_USERNAME}
        /\ Len(Split(Strip(last'.line))) > 1)
       => LET s == last'.s
              old == sess[s].name
              candidate == Join(<<"_">>, Tail(Split(Strip(last'.line))))
          IN  /\ old \notin DOMAIN online_users'
              /\ sess'[s].state =
                    IF ~is_valid(candidate) THEN REQUESTING_NAME
                    ELSE IF candidate \in DOMAIN online_users \ {old}
                    THEN CHOOSING_KICK_OTHER_SESS
                    ELSE IF candidate \in DOMAIN users
                    THEN REQUESTING_LOGIN_PASSWORD
                    ELSE REQUESTING_NEW_ACC_PASSWORD]_vars

\* The states of a session that has authenticated under its name.
AuthenticatedStates ==
    {REGISTERED, REQUESTING_CURRENT_PASSWORD, REQUESTING_NEW_PASSWORD,
     REQUESTING_MESSAGE_TEXT}

\* C15 (as claimed): in every reachable state the is_op flag of every live
\* session authenticated under a name equals is_op of the record of that name.
C15_IsOpMirrorsRecord ==
    \A s \in connections :
        sess[s].state \in AuthenticatedStates
        => /\ sess[s].name \in DOMAIN users
           /\ sess[s].is_op = users[sess[s].name].is_op

\* C16 (as claimed): in every reachable state every online_users entry maps to
\* a session whose state is REGISTERED.
C16_OnlineImpliesRegistered ==
    \A n \in DOMAIN online_users : sess[online_users[n]].state = REGISTERED

\* C16 (amended): in every reachable state every online_users entry maps to a
\* session whose state is REGISTERED, REQUESTING_CURRENT_PASSWORD,
\* REQUESTING_NEW_PASSWORD or REQUESTING_MESSAGE_TEXT.
C16_OnlineImpliesAuthenticated ==
    \A n \in DOMAIN online_users :
        sess[online_users[n]].state \in AuthenticatedStates

\* C16 witness: a session is mapped in online_users under its name while it is
\* asked for its new password, and another session is REGISTERED.
C16_Witness ==
    \E n \in DOMAIN online_users, c \in connections :
        /\ sess[online_users[n]].state = REQUESTING_NEW_PASSWORD
        /\ sess[online_users[n]].name = n
        /\ c # online_users[n]
        /\ sess[c].state = REGISTERED

\* C17 (as claimed): remove_connection of a session that was torn down before
\* raises nothing and changes nothing.
C17_RemoveConnectionIdempotent ==
    \A s \in 1..naccepted :
        s \notin connections => remove_connection(World, s) = World

\* C18: whenever an event changes users or the users file, the file then holds
\* exactly users: no handler changes users without saving, and every save
\* writes the mapping in memory.
C18_WriteThrough ==
    [][(users' # users \/ users_file' # users_file)
       => users_file' = [exists |-> TRUE, data |-> users']]_vars

\* C18 witness: bob has just changed its password, and the file holds the new
\* password and equals users.
C18_Witness ==
    /\ last.op = "got_new_password"
    /\ sess[last.s].name = BOB
    /\ users_file.exists
    /\ users_file.data = users
    /\ users_file.data[BOB].pword = DEFAULT_ADMIN_PASS

\* C19: a line that is not a valid name in REQUESTING_NAME, a line that is not
\* the stored password in REQUESTING_LOGIN_PASSWORD, and a line that is not the
\* stored password in REQUESTING_CURRENT_PASSWORD each change no session (the
\* sender keeps its state and its connection, an incumbent is neither muted nor
\* closed), no connections, online_users, users or users file, and send lines,
\* at least one, to the sender only.
C19_ValidationErrorsAreLocal ==
    [][LET s == last'.s
       IN  (\/ /\ last'.op = "got_username"
               /\ ~is_valid(Strip(last'.line))
            \/ /\ last'.op = "got_login_password"
               /\ Strip(last'.line) # users[sess[s].requested_uname].pword
            \/ /\ last'.op = "got_current_password"
               /\ Strip(last'.line) # users[sess[s].name].pword)
           => /\ UNCHANGED <<connections, online_users, users, users_file, sess>>
              /\ s \in connections'
              /\ ~sess'[s].disconnecting
              /\ sent' # <<>>
              /\ \A i \in 1..Len(sent') : sent'[i][1] = s]_vars

\* C19 witness: a session that answered y to the kick question has sent a wrong
\* password; it is still asked for the password and the session that holds the
\* name is neither muted nor closing.
C19_Witness ==
    /\ last.op = "got_login_password"
    /\ sess[last.s].state = REQUESTING_LOGIN_PASSWORD
    /\ sess[last.s].kick_flow
    /\ sess[last.s].requested_uname \in DOMAIN online_users
    /\ LET t == online_users[sess[last.s].requested_uname]
       IN  t \in connections /\ ~sess[t].muted /\ ~sess[t].disconnecting
    /\ sent = <<<<last.s, <<"Password incorrect. Enter password:">>>>>>

\* A session in REQUESTING_NAME sends the name, answers y if asked whether to
\* kick the session that holds it, and sends the password.
LoginAs(w, t, name, pword) ==
    LET w1 == lineReceived(w, t, name)
        w2 == IF w1.sess[t].state = CHOOSING_KICK_OTHER_SESS
              THEN lineReceived(w1, t, <<"y">>)
              ELSE w1
    IN  lineReceived(w2, t, pword)

\* C20: /changepass from REGISTERED leads to REQUESTING_CURRENT_PASSWORD; there
\* the stored password leads to REQUESTING_NEW_PASSWORD and changes no record;
\* the line sent there becomes the pword of the record of the session's name,
\* no other record or session field changes but the state, back to REGISTERED;
\* and then a login under that name ends REGISTERED with the new password and
\* not with any other.
C20_PasswordChange ==
    [][LET s == last'.s
           name == sess[s].name
       IN  /\ (last'.op = "command_or_msg" /\ Strip(last'.line) = SLASH_CHANGEPASS)
              => /\ sess' = [sess EXCEPT ![s].state = REQUESTING_CURRENT_PASSWORD]
                 /\ UNCHANGED users
           /\ (/\ last'.op = "got_current_password"
               /\ Strip(last'.line) = users[name].pword)
              => /\ sess' = [sess EXCEPT ![s].state = REQUESTING_NEW_PASSWORD]
                 /\ UNCHANGED users
           /\ last'.op = "got_new_password"
              => /\ users' = [users EXCEPT ![name].pword = Strip(last'.line)]
                 /\ sess' = [sess EXCEPT ![s].state = REGISTERED]
                 /\ \A t \in connections', pword \in PasswordLines :
                       sess'[t].state = REQUESTING_NAME
                       => LET w == LoginAs(World', t, name, pword)
                          IN  (/\ w.sess[t].state = REGISTERED
                               /\ w.sess[t].name = name)
                              <=> pword = Strip(last'.line)]_vars

\* C20 witness: admin has just changed its password to pw and is REGISTERED
\* again, while another connection is being asked for its name.
C20_Witness ==
    /\ last.op = "got_new_password"
    /\ sess[last.s].state = REGISTERED
    /\ sess[last.s].name = ADMIN
    /\ users[ADMIN].pword = PW
    /\ \E t \in connections : sess[t].state = REQUESTING_NAME

\* C21: /msg <name> from a REGISTERED session stores the name, asks for the
\* text and puts the session in REQUESTING_MESSAGE_TEXT, changing nothing else;
\* the line sent in that state, stripped, whatever it is, is the body of a
\* private message to the stored name: handed to the session mapped under the
\* name, with an acknowledgment to the sender, or answered by the failure line
\* when the name is not online; no other line is sent, and nothing changes but
\* the sender's state, REGISTERED again.
C21_MessageText ==
    [][LET s == last'.s
       IN  /\ \A n \in {ADMIN, BOB} :
                 (/\ last'.op = "command_or_msg"
                  /\ last'.line = Line(<<SLASH_MSG, n>>))
                 => /\ sess' = [sess EXCEPT ![s].msg_recipient = n,
                                            ![s].state = REQUESTING_MESSAGE_TEXT]
                    /\ sent' = <<<<s, <<"Message text:">>>>>>
                    /\ UNCHANGED <<connections, online_users, users, users_file>>
           /\ last'.op = "got_message_text"
              => LET r == sess[s].msg_recipient
                     body == Strip(last'.line)
                 IN  /\ sess' = [sess EXCEPT ![s].state = REGISTERED]
                     /\ UNCHANGED <<connections, online_users, users, users_file>>
                     /\ sent' = IF r \notin DOMAIN online_users
                                THEN <<<<s, MSG_NOT_ONLINE>>>>
                                ELSE << <<online_users[r],
                                          <<"<msg: {}> {}", sess[s].name, body>>>>,
                                        <<s, <<"! Message sent">>>> >>]_vars

\* C21 witness: the text /quit was delivered to bob as a private message; the
\* sender is REGISTERED and its connection was not asked to close.
C21_Witness ==
    /\ last.op = "got_message_text"
    /\ last.line = SLASH_QUIT
    /\ sess[last.s].state = REGISTERED
    /\ ~sess[last.s].disconnecting
    /\ BOB \in DOMAIN online_users
    /\ Len(sent) = 2
    /\ sent[1] = <<online_users[BOB],
                   <<"<msg: {}> {}", sess[last.s].name, SLASH_QUIT>>>>

\* C22: kick_by_name of an online name mutes the session mapped under it; a
\* muted session stays muted as long as it lives; a chat line or a /me action
\* handled for it sends nothing; and the event that tears it down sends nothing.
C22_MutedForLife ==
    [][/\ \A n \in DOMAIN online_users :
             kick_by_name(World, n, NoSession).sess[online_users[n]].muted
       /\ \A s \in connections :
             sess[s].muted
             => /\ s \in connections' => sess'[s].muted
                /\ s \notin connections' => sent' = <<>>
                /\ command_or_msg(World, s, HI).sent = <<>>
                /\ command_or_msg(World, s, Line(<<SLASH_ME, HI>>)).sent = <<>>]_vars

\* C22 witness: a kicked session is still connected, muted, while another
\* session is REGISTERED.
C22_Witness ==
    \E s \in connections, c \in connections :
        /\ sess[s].muted
        /\ sess[s].disconnecting
        /\ sess[s].state = REGISTERED
        /\ c # s
        /\ sess[c].state = REGISTERED

\* C23 (as claimed): a line in REQUESTING_NEW_ACC_PASSWORD for a name that has
\* a record by then leaves that record unchanged, and the session becomes
\* REGISTERED under the name only if the line is the stored password.
C23_CreationNeverOverwrites ==
    [][LET s == last'.s
           n == sess[s].requested_uname
       IN  (last'.op = "got_new_acc_password" /\ n \in DOMAIN users)
           => /\ users'[n] = users[n]
              /\ (sess'[s].state = REGISTERED /\ sess'[s].name = n)
                 => Strip(last'.line) = users[n].pword]_vars

\* C24 (as claimed): the teardown of a session and a /nick, /user or /username
\* command of a session leave every online_users entry that maps to another
\* session as it was.
C24_OnlyOwnEntryRemoved ==
    [][(\/ last'.op = "connectionLost"
        \/ /\ last'.op = "command_or_msg"
           /\ is_command(Strip(last'.line))
           /\ Command(last'.line) \in {SLASH_NICK, SLASH_USER, SLASH_USERNAME})
       => \A n \in DOMAIN online_users :
             online_users[n] # last'.s
             => /\ n \in DOMAIN online_users'
                /\ online_users'[n] = online_users[n]]_vars

\* C25: in every reachable state every online_users entry maps a name to a live
\* session that has that name, and users holds a record for the name.
C25_OnlineEntriesWellFormed ==
    \A n \in DOMAIN online_users :
        /\ online_users[n] \in connections
        /\ sess[online_users[n]].name = n
        /\ n \in DOMAIN users

\* C25 witness: a session has taken a name over: it is mapped under the name
\* while the incumbent, which has the same name, is still connected.
C25_Witness ==
    \E n \in DOMAIN online_users, t \in connections :
        /\ t # online_users[n]
        /\ sess[t].name = n
        /\ sess[t].muted
        /\ sess[online_users[n]].kick_flow

\* C26 (as claimed): no line makes its handler raise on a missing key.
C26_NoHandlerFaults ==
    ~last.raised

=============================================================================
